---- MODULE Spec2Model ----
(***************************************************************************)
(* Model of the node / relationship upsert protocol of src/db/models.py    *)
(* (merge_person, merge_team, merge_relationship, create_constraints)      *)
(* against a property-graph store that executes the Cypher text the        *)
(* functions build.  Spec: callers making one call after another;          *)
(* SpecConc: two callers inside merge_relationship at once;                *)
(* SpecConstraints: calls of create_constraints.                           *)
(* SpecMixed: upserts and create_constraints calls on one store;           *)
(* SpecPullRequests: calls of merge_pull_request; SpecPairs:               *)
(* merge_relationship on one pair of nodes in both directions;             *)
(* SpecLoaders: the item loops of the batch loaders.                       *)
(*                                                                         *)
(* The store is a bag of nodes and a bag of edges.  Every session.run is   *)
(* one auto-commit query: it either applies all of its clauses or raises   *)
(* and applies none.                                                       *)
(***************************************************************************)
EXTENDS Bags, FiniteSets, Integers, Sequences, TLC

VARIABLES nodes, edges, pre, last, prev, nops, callers, schema, cc, batch

vars == <<nodes, edges, pre, last, prev, nops, callers, schema, cc, batch>>

(***************************************************************************)
(* Bound of the exploration: number of calls made by the callers.          *)
(***************************************************************************)
MaxOps == 3

(***************************************************************************)
(* Values.  Every stored or passed value is a pair <<kind, text>> so that  *)
(* a string, a date and null stay different values.                        *)
(***************************************************************************)
Str(s) == <<"str", s>>
Null == <<"null", "">>
EmptyMap == << >>

\* Cypher date(text): a Date value for an ISO date, an error for text that
\* is no date (here the empty string).
DateParses(v) == v[1] = "str" /\ v[2] # ""
date(v) == <<"date", v[2]>>

\* Python truthiness of a property value (props.get('hire_date')).
Truthy(v) == v # Null /\ v[2] # ""

(***************************************************************************)
(* Errors a session.run can raise.  ServiceUnavailable is the store being  *)
(* unreachable (any query, any time); ClientError is the store rejecting   *)
(* the query (null property in MERGE, unparsable date).                    *)
(***************************************************************************)
NoError == "none"
ServiceUnavailable == "ServiceUnavailable"
ClientError == "ClientError"

(***************************************************************************)
(* BIDIRECTIONAL_RELATIONSHIPS, src/db/models.py:710-755.                  *)
(***************************************************************************)
BIDIRECTIONAL_RELATIONSHIPS ==
  [t \in {"MEMBER_OF", "REPORTS_TO", "MANAGES", "MAPS_TO", "PART_OF",
          "ASSIGNED_TO", "REPORTED_BY", "TEAM", "IN_SPRINT", "BLOCKS",
          "DEPENDS_ON", "RELATES_TO", "COLLABORATOR", "BRANCH_OF",
          "AUTHORED_BY", "MODIFIES", "REFERENCES", "INCLUDES", "TARGETS",
          "CREATED_BY", "REVIEWED_BY", "REQUESTED_REVIEWER", "MERGED_BY"} |->
     CASE t = "MEMBER_OF" -> "MEMBER_OF"
       [] t = "REPORTS_TO" -> "MANAGES"
       [] t = "MANAGES" -> "MANAGED_BY"
       [] t = "MAPS_TO" -> "MAPS_TO"
       [] t = "PART_OF" -> "CONTAINS"
       [] t = "ASSIGNED_TO" -> "ASSIGNED_TO"
       [] t = "REPORTED_BY" -> "REPORTED_BY"
       [] t = "TEAM" -> "TEAM"
       [] t = "IN_SPRINT" -> "CONTAINS"
       [] t = "BLOCKS" -> "BLOCKED_BY"
       [] t = "DEPENDS_ON" -> "DEPENDENCY_OF"
       [] t = "RELATES_TO" -> "RELATES_TO"
       [] t = "COLLABORATOR" -> "COLLABORATOR"
       [] t = "BRANCH_OF" -> "BRANCH_OF"
       [] t = "AUTHORED_BY" -> "AUTHORED_BY"
       [] t = "MODIFIES" -> "MODIFIED_BY"
       [] t = "REFERENCES" -> "REFERENCED_BY"
       [] t = "INCLUDES" -> "INCLUDED_IN"
       [] t = "TARGETS" -> "TARGETED_BY"
       [] t = "CREATED_BY" -> "CREATED"
       [] t = "REVIEWED_BY" -> "REVIEWED"
       [] t = "REQUESTED_REVIEWER" -> "REVIEW_REQUESTED_BY"
       [] t = "MERGED_BY" -> "MERGED"]

(***************************************************************************)
(* The store: Cypher MERGE.                                                *)
(*   node  = [label, props]   props a map that holds at least "id"         *)
(*   edge  = [type, from, to, props]   from/to = <<label, id value>>       *)
(***************************************************************************)
Store(ns, es) == [nodes |-> ns, edges |-> es]

\* A pattern property map matches a stored map when every key of the
\* pattern is stored with the same value; further stored keys are allowed.
PropsMatch(pattern, stored) ==
  \A k \in DOMAIN pattern : k \in DOMAIN stored /\ stored[k] = pattern[k]

NodeMatches(n, label, idv) ==
  n.label = label /\ PropsMatch("id" :> idv, n.props)

\* A node MERGE that writes the matched node afresh, holding the id only.
MergeNodeAfresh(ns, label, idv) ==
  LET fresh(n) == IF NodeMatches(n, label, idv)
                  THEN [label |-> label, props |-> ("id" :> idv)]
                  ELSE n
  IN  IF \E n \in BagToSet(ns) : NodeMatches(n, label, idv)
      THEN BagOfAll(fresh, ns)
      ELSE ns (+) SetToBag({[label |-> label, props |-> ("id" :> idv)]})

\* MERGE (x:label {id: idv}): bind the matching nodes, create one if none.
MergeNode(ns, label, idv) ==
  IF \E n \in BagToSet(ns) : NodeMatches(n, label, idv)
  THEN ns
  ELSE ns (+) SetToBag({[label |-> label, props |-> ("id" :> idv)]})

EdgeMatches(e, type, from, to, pmap) ==
  /\ e.type = type
  /\ e.from = from
  /\ e.to = to
  /\ PropsMatch(pmap, e.props)

\* CREATE in place of MERGE: the edge is added whether or not one matches.
CreateEdge(es, type, from, to, pmap) ==
  es (+) SetToBag({[type |-> type, from |-> from, to |-> to, props |-> pmap]})

\* MERGE (from)-[r:type {pmap}]->(to): match on type, endpoints and the
\* property values of the pattern; create the edge with pmap if none matches.
MergeEdge(es, type, from, to, pmap) ==
  IF \E e \in BagToSet(es) : EdgeMatches(e, type, from, to, pmap)
  THEN es
  ELSE es (+) SetToBag({[type |-> type, from |-> from, to |-> to,
                         props |-> pmap]})

\* MERGE refuses a null property value in its pattern.
HasNull(pmap) == \E k \in DOMAIN pmap : pmap[k] = Null

(***************************************************************************)
(* merge_relationship, src/db/models.py:1284-1343.                         *)
(* A Relationship is [type, from_id, to_id, from_type, to_type,            *)
(* properties]; ids are strings, properties a map of values.               *)
(***************************************************************************)

\* params = {"from_id": from_id, "to_id": to_id, **props}: a property key
\* named from_id or to_id replaces the endpoint parameter.
Params(R) ==
  R.properties @@ ("from_id" :> Str(R.from_id) @@ "to_id" :> Str(R.to_id))

\* props_str = {k: $k, ...}: each key bound to the parameter of its name.
PropsPattern(R) == [k \in DOMAIN R.properties |-> Params(R)[k]]

\* One session.run of a three-MERGE query: from node, to node, edge.
\* Raises ClientError and writes nothing when a pattern value is null.
RunEdgeQuery(s, fromLabel, fromIdv, toLabel, toIdv, type, pmap) ==
  IF fromIdv = Null \/ toIdv = Null \/ HasNull(pmap)
  THEN [raised |-> ClientError, store |-> s]
  ELSE [raised |-> NoError,
        store |-> Store(MergeNode(MergeNode(s.nodes, fromLabel, fromIdv),
                                  toLabel, toIdv),
                        MergeEdge(s.edges, type, <<fromLabel, fromIdv>>,
                                  <<toLabel, toIdv>>, pmap))]

\* forward_query: (from:from_type {id: $from_id})-[type props]->
\*                (to:to_type {id: $to_id})
RunForward(s, R) ==
  RunEdgeQuery(s, R.from_type, Params(R)["from_id"],
               R.to_type, Params(R)["to_id"], R.type, PropsPattern(R))

\* reverse_query (both branches build the same text):
\* (from:to_type {id: $to_id})-[reverse_type props]->
\* (to:from_type {id: $from_id})
RunReverse(s, R) ==
  RunEdgeQuery(s, R.to_type, Params(R)["to_id"],
               R.from_type, Params(R)["from_id"],
               BIDIRECTIONAL_RELATIONSHIPS[R.type], PropsPattern(R))

Outcome(s, raised, stage) == [store |-> s, raised |-> raised, stage |-> stage]

\* A merge_relationship that undoes its forward write when the reverse run
\* raises.
MergeWithRollback(s, R) ==
  LET f == RunForward(s, R)
  IN  {Outcome(s, ServiceUnavailable, "forward")} \cup
      IF f.raised # NoError
      THEN {Outcome(s, f.raised, "forward")}
      ELSE IF R.type \in DOMAIN BIDIRECTIONAL_RELATIONSHIPS
           THEN LET m == RunReverse(f.store, R)
                IN  {Outcome(s, ServiceUnavailable, "mirror"),
                     Outcome(IF m.raised = NoError THEN m.store ELSE s,
                             m.raised,
                             IF m.raised = NoError THEN "done" ELSE "mirror")}
           ELSE {Outcome(f.store, NoError, "done")}

\* The outcomes of one merge_relationship call on store s.  stage tells
\* where the call ended: "forward" (forward run raised, nothing written),
\* "mirror" (reverse run raised, forward write kept), "done" (returned).
\* The caller sees only the exception, raised.
merge_relationship(s, R) ==
  LET f == RunForward(s, R)
  IN  {Outcome(s, ServiceUnavailable, "forward")} \cup
      IF f.raised # NoError
      THEN {Outcome(s, f.raised, "forward")}
      ELSE IF R.type \in DOMAIN BIDIRECTIONAL_RELATIONSHIPS
           THEN LET m == RunReverse(f.store, R)
                IN  {Outcome(f.store, ServiceUnavailable, "mirror"),
                     Outcome(m.store, m.raised,
                             IF m.raised = NoError THEN "done" ELSE "mirror")}
           ELSE {Outcome(f.store, NoError, "done")}

\* A loop that goes on after a call raised and reports the first error at
\* its end.
RECURSIVE MergeAllSkipFailed(_, _)
MergeAllSkipFailed(s, rels) ==
  IF rels = << >>
  THEN {Outcome(s, NoError, "done")}
  ELSE UNION {IF o.raised # NoError
              THEN {Outcome(x.store, o.raised, o.stage) :
                      x \in MergeAllSkipFailed(o.store, Tail(rels))}
              ELSE MergeAllSkipFailed(o.store, Tail(rels)) :
              o \in merge_relationship(s, Head(rels))}

\* for rel in relationships: merge_relationship(session, rel)
\* The first call that raises ends the loop.
RECURSIVE MergeAll(_, _)
MergeAll(s, rels) ==
  IF rels = << >>
  THEN {Outcome(s, NoError, "done")}
  ELSE UNION {IF o.raised # NoError
              THEN {o}
              ELSE MergeAll(o.store, Tail(rels)) :
              o \in merge_relationship(s, Head(rels))}

(***************************************************************************)
(* Node upserts, src/db/models.py:826-897.  An entity is the map of its    *)
(* dataclass fields.                                                       *)
(***************************************************************************)
\* A conversion that adds the type of the entity as a key.
WithTypeKey(entity) == ("type" :> Str("entity")) @@ entity

\* asdict(self): every field of the dataclass under its name.
to_neo4j_properties(entity) == [k \in DOMAIN entity |-> entity[k]]

\* SET x.k = v for k in DOMAIN assign, on every node the MERGE bound;
\* SET x.k = null removes the property.
SetProps(ns, label, idv, assign) ==
  LET set == {k \in DOMAIN assign : assign[k] # Null}
      keys(n) == (DOMAIN n.props \ DOMAIN assign) \cup set
      upd(n) == IF NodeMatches(n, label, idv)
                THEN [n EXCEPT !.props =
                        [k \in keys(n) |-> IF k \in set THEN assign[k]
                                           ELSE n.props[k]]]
                ELSE n
  IN  BagOfAll(upd, ns)

\* A node query that deletes the node with its edges and creates it anew.
RecreateNode(s, label, idv, assign) ==
  IF idv = Null
  THEN [raised |-> ClientError, store |-> s]
  ELSE LET kept == {n \in BagToSet(s.nodes) : ~NodeMatches(n, label, idv)}
           free == {e \in BagToSet(s.edges) :
                      e.from # <<label, idv>> /\ e.to # <<label, idv>>}
       IN  [raised |-> NoError,
            store |-> Store([n \in kept |-> s.nodes[n]] (+)
                            SetToBag({[label |-> label,
                                       props |-> assign @@ ("id" :> idv)]}),
                            [e \in free |-> s.edges[e]])]

\* MERGE (x:label {id: $id}) SET ... RETURN x, one session.run.
RunNodeQuery(s, label, idv, assign) ==
  IF idv = Null
  THEN [raised |-> ClientError, store |-> s]
  ELSE [raised |-> NoError,
        store |-> Store(SetProps(MergeNode(s.nodes, label, idv),
                                 label, idv, assign),
                        s.edges)]

\* The SET list of merge_person: hire_date only when it is truthy.
PersonAssign(props) ==
  LET always == [k \in {"name", "email", "title", "role", "seniority",
                        "is_manager"} |-> props[k]]
  IN  IF Truthy(props["hire_date"])
      THEN ("hire_date" :> date(props["hire_date"])) @@ always
      ELSE always

\* Node write, then the relationship loop; a raising node write skips it.
NodeThenRels(s, q, rels) ==
  {Outcome(s, ServiceUnavailable, "node")} \cup
  IF q.raised # NoError
  THEN {Outcome(s, q.raised, "node")}
  ELSE MergeAll(q.store, rels)

merge_person(s, person, relationships) ==
  LET props == to_neo4j_properties(person)
      q == IF Truthy(props["hire_date"])
              /\ ~DateParses(props["hire_date"])
           THEN [raised |-> ClientError, store |-> s]
           ELSE RunNodeQuery(s, "Person", props["id"], PersonAssign(props))
  IN  NodeThenRels(s, q, relationships)

TeamAssign(props) ==
  ("created_at" :> date(props["created_at"])) @@
  [k \in {"name", "focus_area", "target_size"} |-> props[k]]

merge_team(s, team, relationships) ==
  LET props == to_neo4j_properties(team)
      q == IF ~DateParses(props["created_at"])
           THEN [raised |-> ClientError, store |-> s]
           ELSE RunNodeQuery(s, "Team", props["id"], TeamAssign(props))
  IN  NodeThenRels(s, q, relationships)

\* Cypher datetime(text): a DateTime value for an ISO timestamp, an error
\* for text that is none.
DateTimeParses(v) == v[1] = "str" /\ v[2] # ""
datetime(v) == <<"datetime", v[2]>>

\* A SET list that leaves a null timestamp out instead of assigning null.
AssignPresentOnly(props) ==
  LET given == {k \in {"merged_at", "closed_at"} : props[k] # Null}
      stamped == {"created_at", "updated_at"} \cup given
  IN  [k \in (DOMAIN props \ {"id", "merged_at", "closed_at"}) \cup given |->
         IF k \in stamped THEN datetime(props[k]) ELSE props[k]]

\* The SET list of merge_pull_request: created_at and updated_at as
\* datetime, merged_at and closed_at as datetime when not null and as null
\* otherwise, every other field as passed.
PullRequestAssign(props) ==
  [k \in DOMAIN props \ {"id"} |->
     CASE k \in {"created_at", "updated_at"} -> datetime(props[k])
       [] k \in {"merged_at", "closed_at"} ->
            IF props[k] # Null THEN datetime(props[k]) ELSE Null
       [] OTHER -> props[k]]

merge_pull_request(s, pull_request, relationships) ==
  LET props == to_neo4j_properties(pull_request)
      stamps == {props[k] : k \in {"created_at", "updated_at"}} \cup
                ({props[k] : k \in {"merged_at", "closed_at"}} \ {Null})
      q == IF \E v \in stamps : ~DateTimeParses(v)
           THEN [raised |-> ClientError, store |-> s]
           ELSE RunNodeQuery(s, "PullRequest", props["id"],
                             PullRequestAssign(props))
  IN  NodeThenRels(s, q, relationships)

(***************************************************************************)
(* Inputs of the callers.                                                  *)
(***************************************************************************)
Relationship(type, from_id, to_id, from_type, to_type, properties) ==
  [type |-> type, from_id |-> from_id, to_id |-> to_id,
   from_type |-> from_type, to_type |-> to_type, properties |-> properties]

\* A constructor whose default for properties is a bag that is not empty.
RelationshipWithDefaultAccess(type, from_id, to_id, from_type, to_type) ==
  Relationship(type, from_id, to_id, from_type, to_type,
               "permission" :> Str("READ"))

\* A Relationship built without properties:
\* properties: Dict[str, Any] = field(default_factory=dict).
RelationshipWithoutProperties(type, from_id, to_id, from_type, to_type) ==
  Relationship(type, from_id, to_id, from_type, to_type, EmptyMap)

\* COLLABORATOR mirrors to itself, REPORTS_TO mirrors to MANAGES,
\* MANAGED_BY is no key of the registry.
RelTypes == {"COLLABORATOR", "REPORTS_TO", "MANAGED_BY"}

BagWriteDated ==
  ("permission" :> Str("WRITE")) @@ ("granted_at" :> Str("2023-11-10"))
BagRead == "permission" :> Str("READ")
BagFromId == "from_id" :> Str("p2")
BagNull == "permission" :> Null

\* Person p1 -> Person p2 of every type, without properties and with a
\* property named from_id; the self-relationship Person p1 -> Person p1 of
\* the symmetric type under both bags and of the asymmetric registered type
\* without properties.
PersonRelationships ==
  {Relationship(t, "p1", "p2", "Person", "Person", b) :
     t \in RelTypes, b \in {EmptyMap, BagFromId}} \cup
  {Relationship("COLLABORATOR", "p1", "p1", "Person", "Person", b) :
     b \in {EmptyMap, BagFromId}} \cup
  {Relationship("REPORTS_TO", "p1", "p1", "Person", "Person", EmptyMap)}

\* Person p1 -> Team p1 (same id under another label), without properties
\* and with the property bags of a collaborator grant.
GrantRelationships ==
  {Relationship("COLLABORATOR", "p1", "p1", "Person", "Team", b) :
     b \in {EmptyMap, BagWriteDated, BagRead, BagNull}}

Relationships == PersonRelationships \cup GrantRelationships

Person(id, name, hire_date) ==
  [id |-> Str(id), name |-> Str(name), email |-> Str("e"),
   title |-> Str("t"), role |-> Str("r"), seniority |-> Str("s"),
   hire_date |-> Str(hire_date), is_manager |-> <<"bool", "false">>]

\* One person written with a hire date and one without.
Persons == {Person("p1", "Ann", "2024-06-01"), Person("p1", "Bob", "")}

Team(id, created_at) ==
  [id |-> Str(id), name |-> Str("T"), focus_area |-> Str(""),
   target_size |-> <<"int", "0">>, created_at |-> Str(created_at)]

Teams == {Team("p1", c) : c \in {"", "2023-11-10"}}

\* Relationship lists handed to a node upsert.
NoRels == << >>
TwoRels ==
  <<Relationship("COLLABORATOR", "p1", "p1", "Person", "Team", BagRead),
    Relationship("REPORTS_TO", "p1", "p2", "Person", "Person", EmptyMap)>>

\* (entity, relationship list) pairs of the node upsert calls.
PersonCalls ==
  {<<P, NoRels>> : P \in Persons} \cup {<<Person("p1", "Bob", ""), TwoRels>>}
TeamCalls == {<<T, NoRels>> : T \in Teams}

(***************************************************************************)
(* State machine.  Each action is one call of a caller, from entry to      *)
(* return or raise.  pre, last and prev record the store before the last   *)
(* call and the last two calls with their arguments and outcome.           *)
(***************************************************************************)
NoCall == [op |-> "none", arg |-> [none |-> ""], rels |-> << >>,
           raised |-> NoError, stage |-> "done"]

Call(op, arg, rels, o) ==
  [op |-> op, arg |-> arg, rels |-> rels, raised |-> o.raised,
   stage |-> o.stage]

\* No caller is inside a call, no schema rule is declared and
\* create_constraints has not been called.
NoCallers == << >>
NoSchema == {}

\* The answer of the store to a schema declaration: an error with the words
\* of its message, or Accepted when the declaration raised nothing.
Error(code, message) == [code |-> code, message |-> message]
Accepted == Error("none", << >>)

\* The layers argument: None, the default of the parameter, or a list.
None == [given |-> FALSE, list |-> << >>]
List(L) == [given |-> TRUE, list |-> L]

\* A create_constraints call: its argument, the declarations it issued, the
\* answer of the store to each, what it raised, and whether it repeats the
\* call before it (same layers, and that call returned).
NoDeclarations == [layers |-> None, issued |-> << >>, answers |-> << >>,
                   raised |-> Accepted, called |-> FALSE, again |-> FALSE]

\* No batch load is running: a loader, the items of its batch, the index
\* of the next item, the items whose upsert raised, the items the loader
\* reported, and whether an exception ended the loop.
NoBatch == [loader |-> "none", items |-> << >>, at |-> 1, failed |-> {},
            reported |-> {}, aborted |-> FALSE]

Init ==
  /\ nodes = EmptyBag
  /\ edges = EmptyBag
  /\ pre = Store(EmptyBag, EmptyBag)
  /\ last = NoCall
  /\ prev = NoCall
  /\ nops = 0
  /\ callers = NoCallers
  /\ schema = NoSchema
  /\ cc = NoDeclarations
  /\ batch = NoBatch

Record(op, arg, rels, o) ==
  /\ nodes' = o.store.nodes
  /\ edges' = o.store.edges
  /\ pre' = Store(nodes, edges)
  /\ prev' = last
  /\ last' = Call(op, arg, rels, o)
  /\ nops' = nops + 1
  /\ UNCHANGED <<callers, schema, cc, batch>>

MergeRelationship ==
  /\ nops < MaxOps
  /\ \E R \in Relationships :
       \E o \in merge_relationship(Store(nodes, edges), R) :
         Record("merge_relationship", R, << >>, o)

MergePerson ==
  /\ nops < MaxOps
  /\ \E c \in PersonCalls :
       \E o \in merge_person(Store(nodes, edges), c[1], c[2]) :
         Record("merge_person", c[1], c[2], o)

MergeTeam ==
  /\ nops < MaxOps
  /\ \E c \in TeamCalls :
       \E o \in merge_team(Store(nodes, edges), c[1], c[2]) :
         Record("merge_team", c[1], c[2], o)

Next == MergeRelationship \/ MergePerson \/ MergeTeam

Spec == Init /\ [][Next]_vars

(***************************************************************************)
(* Vocabulary of the properties.                                           *)
(***************************************************************************)
Now == Store(nodes, edges)

IsRel(c) == c.op = "merge_relationship"
IsNodeUpsert(c) == c.op \in {"merge_person", "merge_team"}
Returned(c) == c.stage = "done"
SameCall(c, d) == c.op = d.op /\ c.arg = d.arg /\ c.rels = d.rels

Registered(R) == R.type \in DOMAIN BIDIRECTIONAL_RELATIONSHIPS
MirrorType(R) == BIDIRECTIONAL_RELATIONSHIPS[R.type]
FromNode(R) == <<R.from_type, Str(R.from_id)>>
ToNode(R) == <<R.to_type, Str(R.to_id)>>

\* The edges of one (type, from, to) triple, as a set and counted.
EdgesBetween(es, type, from, to) ==
  {e \in BagToSet(es) : e.type = type /\ e.from = from /\ e.to = to}
EdgeCount(es, type, from, to) ==
  BagCardinality([e \in EdgesBetween(es, type, from, to) |-> es[e]])

\* The nodes of one (label, id) key, as a set and counted.
NodesOf(ns, key) == {n \in BagToSet(ns) : NodeMatches(n, key[1], key[2])}
NodeCount(ns, key) == BagCardinality([n \in NodesOf(ns, key) |-> ns[n]])

\* The edges a call added: the copies the store holds beyond those of pre.
Added(e) == CopiesIn(e, edges) - CopiesIn(e, pre.edges)
AddedEdges == {e \in BagToSet(edges) : Added(e) > 0}

\* The label of the nodes a node upsert writes.
LabelOf(c) == IF c.op = "merge_person" THEN "Person" ELSE "Team"
KeyOf(c) == <<LabelOf(c), c.arg["id"]>>

\* What the store holds for entity E once every field is written: each
\* field under its name, date-only fields as dates, an empty hire_date as
\* an absent property.
StoredForm(c) ==
  LET E == c.arg
      plain == DOMAIN E \ {"hire_date", "created_at"}
      dated == {k \in DOMAIN E \cap {"hire_date", "created_at"} : E[k][2] # ""}
  IN  [k \in plain \cup dated |-> IF k \in dated THEN date(E[k]) ELSE E[k]]

(***************************************************************************)
(* Claims.                                                                 *)
(***************************************************************************)

\* C1: after a merge_relationship(R) call of a registered type returns, the
\* store holds an edge (R.type: from -> to) and an edge (mirror: to -> from),
\* each carrying exactly R.properties.
C1_MirrorSymmetry ==
  (IsRel(last) /\ Returned(last) /\ Registered(last.arg)) =>
    LET R == last.arg
    IN  /\ \E e \in EdgesBetween(edges, R.type, FromNode(R), ToNode(R)) :
             e.props = R.properties
        /\ \E e \in EdgesBetween(edges, MirrorType(R), ToNode(R), FromNode(R)) :
             e.props = R.properties

\* C2: after merge_relationship(R) has returned twice in a row, exactly one
\* edge of type R.type leads from R.from_id to R.to_id and its properties
\* equal R.properties.
C2_EdgeIdempotence ==
  (IsRel(last) /\ SameCall(last, prev) /\ Returned(last) /\ Returned(prev)) =>
    LET R == last.arg
    IN  /\ EdgeCount(edges, R.type, FromNode(R), ToNode(R)) = 1
        /\ \A e \in EdgesBetween(edges, R.type, FromNode(R), ToNode(R)) :
             e.props = R.properties

\* C3: a registered relationship upserted with {permission: WRITE,
\* granted_at: d} and then with {permission: READ} leaves exactly one forward
\* and exactly one mirror edge, both showing permission = READ.
C3_PropertyUpdateOnReupsert ==
  (/\ IsRel(prev) /\ IsRel(last) /\ Returned(prev) /\ Returned(last)
   /\ Registered(last.arg)
   /\ prev.arg = [last.arg EXCEPT !.properties = BagWriteDated]
   /\ last.arg.properties = BagRead) =>
    LET R == last.arg
        fwd == EdgesBetween(edges, R.type, FromNode(R), ToNode(R))
        mir == EdgesBetween(edges, MirrorType(R), ToNode(R), FromNode(R))
    IN  /\ EdgeCount(edges, R.type, FromNode(R), ToNode(R)) = 1
        /\ EdgeCount(edges, MirrorType(R), ToNode(R), FromNode(R)) = 1
        /\ \A e \in fwd \cup mir :
             "permission" \in DOMAIN e.props
             /\ e.props["permission"] = Str("READ")

\* C4: in every reachable state the store holds at most one edge for each
\* (relationship type, from node, to node).
C4_OneEdgePerTriple ==
  \A e \in BagToSet(edges) : EdgeCount(edges, e.type, e.from, e.to) <= 1

\* C5: after the node upsert of entity E has returned twice in a row, exactly
\* one node has E's label and id and its stored properties equal E's fields.
C5_NodeIdempotence ==
  (IsNodeUpsert(last) /\ SameCall(last, prev)
   /\ Returned(last) /\ Returned(prev)) =>
    /\ NodeCount(nodes, KeyOf(last)) = 1
    /\ \A n \in NodesOf(nodes, KeyOf(last)) : n.props = StoredForm(last)

\* C6: a merge_relationship(R) call of a type absent from the registry never
\* runs a mirror step, and when it returns it has left the forward edge
\* (R.type: from -> to) in the store and added no edge but that one.
C6_NoMirrorForUnregistered ==
  (IsRel(last) /\ ~Registered(last.arg)) =>
    LET R == last.arg
    IN  /\ last.stage \in {"forward", "done"}
        /\ Returned(last) =>
             /\ EdgesBetween(edges, R.type, FromNode(R), ToNode(R)) # {}
             /\ AddedEdges \subseteq
                  EdgesBetween(edges, R.type, FromNode(R), ToNode(R))
             /\ BagCardinality(edges) <= BagCardinality(pre.edges) + 1

\* C7: a merge_relationship that returns when neither endpoint node existed
\* has created both endpoint nodes with only the id populated; a node
\* upsert that returns leaves exactly one node of its label and id, holding
\* the entity's fields, and keeps every edge the store held.
C7_PlaceholderThenEnrich ==
  /\ (/\ IsRel(last) /\ Returned(last)
      /\ NodeCount(pre.nodes, FromNode(last.arg)) = 0
      /\ NodeCount(pre.nodes, ToNode(last.arg)) = 0) =>
       \A key \in {FromNode(last.arg), ToNode(last.arg)} :
         /\ NodeCount(nodes, key) = 1
         /\ \A n \in NodesOf(nodes, key) : n.props = ("id" :> key[2])
  /\ (IsNodeUpsert(last) /\ Returned(last)) =>
       /\ NodeCount(nodes, KeyOf(last)) = 1
       /\ \A n \in NodesOf(nodes, KeyOf(last)) :
            \A k \in DOMAIN StoredForm(last) :
              k \in DOMAIN n.props /\ n.props[k] = StoredForm(last)[k]
       /\ pre.edges \sqsubseteq edges

\* C8: after merge_relationship(R) returns for a registered type with
\* from_id = to_id and from_type = to_type, the node carries a self-loop of
\* type R.type and a self-loop of the mirror type.
C8_SelfLoop ==
  (/\ IsRel(last) /\ Returned(last) /\ Registered(last.arg)
   /\ FromNode(last.arg) = ToNode(last.arg)) =>
    LET R == last.arg
        n == FromNode(R)
    IN  /\ EdgesBetween(edges, R.type, n, n) # {}
        /\ EdgesBetween(edges, MirrorType(R), n, n) # {}

\* C9: the error the caller receives from a merge_relationship whose mirror
\* write failed differs from the error it receives from one whose forward
\* write failed.
C9_PartialFailureDistinct ==
  (IsRel(prev) /\ IsRel(last) /\ prev.stage = "forward"
   /\ last.stage = "mirror") =>
    last.raised # prev.raised

\* A step in which the call that just raised is made again and returns.
RetryStep ==
  /\ last.op # "none"
  /\ ~Returned(last)
  /\ SameCall(last', last)
  /\ Returned(last')

\* The stores one call c that returns can leave when started on store s.
Uninterrupted(c, s) ==
  {o.store :
     o \in {x \in (CASE c.op = "merge_relationship" ->
                          merge_relationship(s, c.arg)
                     [] c.op = "merge_person" ->
                          merge_person(s, c.arg, c.rels)
                     [] OTHER -> merge_team(s, c.arg, c.rels)) :
              x.stage = "done"}}

\* C10: when a call that raised (a merge_relationship whose forward or
\* mirror write failed, a node upsert that failed at any point) is made
\* again and returns, the store holds the nodes and
\* edges one uninterrupted call on the store before the failed call would
\* have left, and a retried node upsert leaves one node of its key.
C10_RetryInFull ==
  [][RetryStep =>
       /\ Store(nodes', edges') \in Uninterrupted(last, pre)
       /\ IsNodeUpsert(last) => NodeCount(nodes', KeyOf(last)) = 1]_vars

\* A registered relationship whose mirror write failed was upserted again
\* and returned, on a store that already held an edge.
C10_Witness ==
  /\ IsRel(last) /\ SameCall(last, prev)
  /\ Registered(last.arg)
  /\ prev.stage = "mirror"
  /\ Returned(last)
  /\ BagCardinality(edges) >= 3

\* Field k of the stored node n holds the value of entity E of call c: the
\* encoded value when E has one, no value when E's is empty.
HoldsValueOf(n, c, k) ==
  IF k \in DOMAIN StoredForm(c)
    THEN k \in DOMAIN n.props /\ n.props[k] = StoredForm(c)[k]
    ELSE k \notin DOMAIN n.props

\* C12: after a node upsert of entity E returns, every declared non-key
\* field of the stored node holds E's value, whatever the node held before.
C12_LastWriteWinsPerField ==
  (IsNodeUpsert(last) /\ Returned(last)) =>
    \A n \in NodesOf(nodes, KeyOf(last)) :
      \A k \in DOMAIN last.arg \ {"id"} : HoldsValueOf(n, last, k)

\* The stores a node upsert c started on store s leaves once its node write
\* and the upserts of its first n relationships, in list order, are done.
RECURSIVE PrefixStores(_, _, _)
PrefixStores(c, s, n) ==
  IF n = 0
  THEN Uninterrupted([c EXCEPT !.rels = << >>], s)
  ELSE UNION {{o.store : o \in {x \in merge_relationship(t, c.rels[n]) :
                                    x.stage = "done"}} :
              t \in PrefixStores(c, s, n - 1)}

\* The stores a merge_relationship(R) that raised at stage st leaves on s.
RaisedAt(s, R, st) ==
  {o.store : o \in {x \in merge_relationship(s, R) : x.stage = st}}

\* C13: a node upsert with a relationship list writes the node before any
\* relationship and the relationships in list order; when the upsert of the
\* k-th relationship fails, the store holds the node and relationships
\* 1..k-1 with their mirrors and nothing of relationships k+1.., and the
\* caller receives the error.
C13_NodeThenRelationshipsInOrder ==
  (IsNodeUpsert(last) /\ last.rels # << >>) =>
    /\ last.stage = "node" => (Now = pre /\ last.raised # NoError)
    /\ last.stage \in {"forward", "mirror"} =>
         /\ last.raised # NoError
         /\ \E k \in 1..Len(last.rels) :
              \E s \in PrefixStores(last, pre, k - 1) :
                Now \in RaisedAt(s, last.rels[k], last.stage)
    /\ Returned(last) =>
         /\ last.raised = NoError
         /\ Now \in PrefixStores(last, pre, Len(last.rels))

\* The upsert of the second relationship of a list failed at its mirror
\* write: the node, the first relationship with its mirror and the forward
\* edge of the second are in the store.
C13_Witness ==
  /\ IsNodeUpsert(last) /\ Len(last.rels) = 2
  /\ last.stage = "mirror"
  /\ NodeCount(nodes, KeyOf(last)) = 1
  /\ \A i \in 1..2 :
       EdgesBetween(edges, last.rels[i].type, FromNode(last.rels[i]),
                    ToNode(last.rels[i])) # {}
  /\ EdgesBetween(edges, MirrorType(last.rels[1]), ToNode(last.rels[1]),
                  FromNode(last.rels[1])) # {}
  /\ EdgesBetween(edges, MirrorType(last.rels[2]), ToNode(last.rels[2]),
                  FromNode(last.rels[2])) = {}

\* C18: after merge_relationship(R) returns, for every property bag of R,
\* the forward edge leads from the node (from_type, R.from_id) to the node
\* (to_type, R.to_id) and the mirror edge leads back between the same two
\* nodes: the store holds those edges and the call added no other.
C18_EndpointsAreThoseOfR ==
  (IsRel(last) /\ Returned(last)) =>
    LET R == last.arg
        fwd == EdgesBetween(edges, R.type, FromNode(R), ToNode(R))
        mir == IF Registered(R)
               THEN EdgesBetween(edges, MirrorType(R), ToNode(R), FromNode(R))
               ELSE {}
    IN  /\ fwd # {}
        /\ Registered(R) => mir # {}
        /\ AddedEdges \subseteq fwd \cup mir

\* The nodes a call added: the copies the store holds beyond those of pre.
AddedNodes ==
  {n \in BagToSet(nodes) : CopiesIn(n, nodes) > CopiesIn(n, pre.nodes)}

\* C19: one merge_relationship(R) call adds at most two edges and at most
\* two nodes, every node it adds is (from_type, R.from_id) or
\* (to_type, R.to_id), and its mirror step adds no node.
C19_AtMostTwoEdgesTwoNodes ==
  IsRel(last) =>
    LET R == last.arg
        f == RunForward(pre, R)
    IN  /\ BagCardinality(edges) <= BagCardinality(pre.edges) + 2
        /\ BagCardinality(nodes) <= BagCardinality(pre.nodes) + 2
        /\ \A n \in AddedNodes :
             \E key \in {FromNode(R), ToNode(R)} :
               NodeMatches(n, key[1], key[2])
        /\ (Registered(R) /\ f.raised = NoError) =>
             RunReverse(f.store, R).store.nodes = f.store.nodes

\* The fields the dataclass of a label declares.
Fields(label) ==
  IF label = "Person"
  THEN {"id", "name", "email", "title", "role", "seniority", "hire_date",
        "is_manager"}
  ELSE {"id", "name", "focus_area", "target_size", "created_at"}

NamesEndpoint(c) ==
  IsRel(c) /\ DOMAIN c.arg.properties \cap {"from_id", "to_id"} # {}

MirrorSymmetryElsewhere ==
  (IsRel(last) /\ Returned(last) /\ Registered(last.arg)
   /\ ~NamesEndpoint(last)) =>
    LET R == last.arg
    IN  /\ \E e \in EdgesBetween(edges, R.type, FromNode(R), ToNode(R)) :
             PropsMatch(R.properties, e.props)
        /\ \E e \in EdgesBetween(edges, MirrorType(R), ToNode(R), FromNode(R)) :
             PropsMatch(R.properties, e.props)

NoMirrorForUnregisteredElsewhere ==
  NamesEndpoint(last) \/ C6_NoMirrorForUnregistered

PlaceholderThenEnrichElsewhere ==
  NamesEndpoint(last) \/ C7_PlaceholderThenEnrich

SelfLoopElsewhere ==
  NamesEndpoint(last) \/ C8_SelfLoop

\* Without a property named from_id or to_id, C18 and C19 hold.
EndpointsAreThoseOfRElsewhere ==
  NamesEndpoint(last) \/ C18_EndpointsAreThoseOfR

AtMostTwoEdgesTwoNodesElsewhere ==
  NamesEndpoint(last) \/ C19_AtMostTwoEdgesTwoNodes

(***************************************************************************)
(* create_constraints, src/db/models.py:762-819.  The schema of the store  *)
(* is a set of rules: uniqueness constraints and plain indexes.            *)
(***************************************************************************)
Constraint(name, label, field) ==
  [kind |-> "constraint", name |-> name, label |-> label, field |-> field]
Index(label, field) ==
  [kind |-> "index", name |-> "", label |-> label, field |-> field]

\* The declarations of each layer, in the order of the dict.
all_constraints ==
  [layer \in 1..8 |->
     CASE layer = 1 -> <<Constraint("person_id", "Person", "id"),
                         Constraint("team_id", "Team", "id"),
                         Constraint("identity_id", "IdentityMapping", "id")>>
       [] layer = 2 -> <<Constraint("project_id", "Project", "id"),
                         Constraint("initiative_id", "Initiative", "id")>>
       [] layer = 3 -> <<Constraint("epic_id", "Epic", "id")>>
       [] layer = 4 -> <<Constraint("issue_id", "Issue", "id"),
                         Constraint("sprint_id", "Sprint", "id")>>
       [] layer = 5 -> <<Constraint("repository_id", "Repository", "id")>>
       [] layer = 6 -> <<Constraint("branch_id", "Branch", "id")>>
       [] layer = 7 -> <<Constraint("commit_id", "Commit", "id"),
                         Constraint("commit_sha", "Commit", "sha"),
                         Constraint("file_id", "File", "id")>>
       [] OTHER -> <<Constraint("pull_request_id", "PullRequest", "id")>>]

\* for layer in layers: if layer in all_constraints: constraints.extend(...)
RECURSIVE Extend(_)
Extend(layers) ==
  IF layers = << >>
  THEN << >>
  ELSE (IF Head(layers) \in DOMAIN all_constraints
        THEN all_constraints[Head(layers)]
        ELSE << >>) \o Extend(Tail(layers))

\* The declarations of every layer, whatever the list names.
EveryLayer(layers) == Extend(<<1, 2, 3, 4, 5, 6, 7, 8>>)

\* The list `constraints` the loop runs over: every layer when layers is
\* None, else the layers of the list, in its order, unknown ones skipped.
Selected(layers) ==
  IF layers = None
  THEN Extend(<<1, 2, 3, 4, 5, 6, 7, 8>>)
  ELSE Extend(layers.list)

\* Errors of a schema declaration.
ConstraintAlreadyExists ==
  Error("ConstraintAlreadyExists", <<"Constraint", "already", "exists">>)
IndexAlreadyExists ==
  Error("IndexAlreadyExists",
        <<"There", "already", "exists", "an", "index">>)
Unreachable == Error("ServiceUnavailable", <<"Unable", "to", "connect">>)

\* str(e).lower(), word by word.
lower(message) ==
  [i \in DOMAIN message |->
     CASE message[i] = "Constraint" -> "constraint"
       [] message[i] = "There" -> "there"
       [] message[i] = "Unable" -> "unable"
       [] OTHER -> message[i]]

\* An except clause that swallows nothing.
SwallowsNothing(e) == FALSE

\* "already exists" in str(e).lower(): the exception is swallowed.
Swallowed(e) ==
  LET m == lower(e.message)
  IN  \E i \in 1..(Len(m) - 1) : m[i] = "already" /\ m[i + 1] = "exists"

\* The answer of the store to CREATE CONSTRAINT d IF NOT EXISTS on schema
\* S: an index on the same label and field blocks the constraint; an
\* existing constraint on them makes the declaration a no-op, or an
\* already-exists report when the store reports them (reports).
Answer(S, d, reports) ==
  IF Index(d.label, d.field) \in S
  THEN IndexAlreadyExists
  ELSE IF reports /\ \E c \in S : /\ c.kind = "constraint"
                                   /\ c.label = d.label
                                   /\ c.field = d.field
       THEN ConstraintAlreadyExists
       ELSE Accepted

\* for constraint in constraints: try: session.run(constraint) except ...
\* failAt counts the declarations down to the one at which the store is
\* unreachable (0: it stays reachable).  answers holds the answer of the
\* store to each declaration issued.
RECURSIVE RunConstraints(_, _, _, _)
RunConstraints(S, ds, reports, failAt) ==
  IF ds = << >>
  THEN [schema |-> S, answers |-> << >>, raised |-> Accepted]
  ELSE LET e == IF failAt = 1 THEN Unreachable
                ELSE Answer(S, Head(ds), reports)
       IN  IF e = Accepted
           THEN LET r == RunConstraints(S \cup {Head(ds)}, Tail(ds), reports,
                                        IF failAt = 0 THEN 0 ELSE failAt - 1)
                IN  [r EXCEPT !.answers = <<e>> \o @]
           ELSE IF ~Swallowed(e)
                THEN [schema |-> S, answers |-> <<e>>, raised |-> e]
                ELSE LET r == RunConstraints(S, Tail(ds), reports,
                                             IF failAt = 0 THEN 0
                                             ELSE failAt - 1)
                     IN  [r EXCEPT !.answers = <<e>> \o @]

\* The outcomes of one create_constraints call on schema S.
create_constraints(S, layers) ==
  LET ds == Selected(layers)
  IN  {[r EXCEPT !.layers = layers, !.issued = SubSeq(ds, 1, Len(r.answers)),
                 !.called = TRUE] :
         r \in {RunConstraints(S, ds, reports, failAt) @@ NoDeclarations :
                  reports \in BOOLEAN, failAt \in 0..Len(ds)}}

\* The layers arguments of the callers: omitted, one layer, two layers out
\* of order, a layer named twice, a known and an unknown layer.
LayerLists ==
  {None, List(<<1>>), List(<<2, 1>>), List(<<1, 1>>), List(<<7, 9>>)}

\* A store without schema rules, or one holding a plain index on the key
\* of Person.
InitConstraints ==
  /\ nodes = EmptyBag
  /\ edges = EmptyBag
  /\ pre = Store(EmptyBag, EmptyBag)
  /\ last = NoCall
  /\ prev = NoCall
  /\ nops = 0
  /\ callers = NoCallers
  /\ schema \in {NoSchema, {Index("Person", "id")}}
  /\ cc = NoDeclarations
  /\ batch = NoBatch

CreateConstraints ==
  \E layers \in LayerLists :
    \E o \in create_constraints(schema, layers) :
      /\ schema' = o.schema
      /\ cc' = [layers |-> o.layers, issued |-> o.issued,
                answers |-> o.answers, raised |-> o.raised,
                called |-> TRUE,
                again |-> /\ cc.called
                          /\ cc.layers = layers
                          /\ cc.raised = Accepted]
      /\ UNCHANGED <<nodes, edges, pre, last, prev, nops, callers, batch>>

NextConstraints == CreateConstraints

SpecConstraints == InitConstraints /\ [][NextConstraints]_vars

(***************************************************************************)
(* Claims about create_constraints.                                        *)
(***************************************************************************)

\* The elements of a sequence, and how often x occurs in it.
Range(seq) == {seq[i] : i \in DOMAIN seq}
Count(x, seq) == Cardinality({i \in DOMAIN seq : seq[i] = x})

\* C14: a create_constraints call that repeats the call before it (same
\* layers, that call returned) and to which the store answers nothing but
\* "accepted" or "constraint already exists" returns without an error,
\* having issued every declaration of its layers.
C14_TwiceSucceeds ==
  (/\ cc.called /\ cc.again
   /\ Range(cc.answers) \subseteq {Accepted, ConstraintAlreadyExists}) =>
    /\ cc.raised = Accepted
    /\ Len(cc.issued) = Len(Selected(cc.layers))

\* The second of two calls with the same layers was told by the store that
\* a constraint already exists, and returned.
C14_Witness ==
  /\ cc.called /\ cc.again
  /\ ConstraintAlreadyExists \in Range(cc.answers)
  /\ cc.raised = Accepted
  /\ Len(cc.issued) > 0

\* C15: every answer of the store to a declaration of create_constraints
\* that is a failure other than "constraint already exists" is the error
\* the caller receives, and the declaration it answers is the last issued.
C15_OtherFailuresPropagate ==
  cc.called =>
    \A i \in DOMAIN cc.answers :
      cc.answers[i] \notin {Accepted, ConstraintAlreadyExists} =>
        /\ cc.raised = cc.answers[i]
        /\ i = Len(cc.issued)

\* The layers a layers argument names, and the layer of a declaration.
Layers == DOMAIN all_constraints
Named(layers) == IF layers = None THEN Layers ELSE Range(layers.list)
DeclarationsOf(l) == Range(all_constraints[l])

\* C16 as stated: a create_constraints call that returns has issued every
\* declaration of every layer when layers is omitted, and for a list L
\* exactly one declaration per (entity type, key field) of the layers L
\* names and no declaration of another layer.
C16_OneDeclarationPerPair ==
  (cc.called /\ cc.raised = Accepted) =>
    /\ \A l \in Named(cc.layers) \cap Layers :
         \A d \in DeclarationsOf(l) : Count(d, cc.issued) = 1
    /\ \A d \in Range(cc.issued) :
         \E l \in Named(cc.layers) \cap Layers : d \in DeclarationsOf(l)

\* How often a list names layer l; an omitted list names each layer once.
Occurrences(l, layers) ==
  IF layers = None THEN 1 ELSE Count(l, layers.list)

\* C16 amended: a create_constraints call that returns has issued the
\* declarations of a layer once for each time the list names it (once each
\* for every layer when layers is omitted), none for identifiers that are
\* no layer, and no declaration of a layer the list does not name.
C16_DeclarationsPerOccurrence ==
  (cc.called /\ cc.raised = Accepted) =>
    /\ \A l \in Layers :
         \A d \in DeclarationsOf(l) :
           Count(d, cc.issued) = Occurrences(l, cc.layers)
    /\ \A d \in Range(cc.issued) : \E l \in Layers : d \in DeclarationsOf(l)

\* A call whose list names layer 1 twice returned, having issued the three
\* declarations of layer 1 twice.
C16_Witness ==
  /\ cc.called /\ cc.raised = Accepted
  /\ cc.layers = List(<<1, 1>>)
  /\ Len(cc.issued) = 2 * Len(all_constraints[1])

(***************************************************************************)
(* Two callers inside merge_relationship at the same time, each on its own *)
(* session.  A step is one session.run: the forward query                  *)
(* (src/db/models.py:1320) or the reverse query (1322-1343) of one caller. *)
(* callers[c] holds the relationship of caller c, where it stands (start,  *)
(* forward: forward query done and mirror pending, done: returned, raised) *)
(* and what it raised.                                                     *)
(***************************************************************************)
Callers == {"a", "b"}

\* The relationships of the concurrent callers: one grant triple under four
\* property bags, a person triple of an asymmetric registered type under
\* two, a type without mirror, and a relationship to a label that is no
\* entity type.
ConcRelationships ==
  GrantRelationships \cup
  {Relationship("REPORTS_TO", "p1", "p2", "Person", "Person", b) :
     b \in {EmptyMap, BagRead}} \cup
  {Relationship("MANAGED_BY", "p1", "p2", "Person", "Person", EmptyMap),
   Relationship("COLLABORATOR", "p1", "p1", "Person", "Widget", EmptyMap)}

InitConc ==
  /\ nodes = EmptyBag
  /\ edges = EmptyBag
  /\ pre = Store(EmptyBag, EmptyBag)
  /\ last = NoCall
  /\ prev = NoCall
  /\ nops = 0
  /\ callers \in [Callers -> {[rel |-> R, pc |-> "start", raised |-> NoError] :
                                R \in ConcRelationships}]
  /\ schema = NoSchema
  /\ cc = NoDeclarations
  /\ batch = NoBatch

\* One session.run of caller c with result r, which leaves c at pc `then`
\* when it raised nothing.
RunStep(c, r, then) ==
  /\ nodes' = r.store.nodes
  /\ edges' = r.store.edges
  /\ callers' = [callers EXCEPT
                   ![c].pc = IF r.raised # NoError THEN "raised" ELSE then,
                   ![c].raised = r.raised]
  /\ UNCHANGED <<pre, last, prev, nops, schema, cc, batch>>

\* session.run(forward_query, **params); a type without mirror returns.
Forward(c) ==
  /\ callers[c].pc = "start"
  /\ \E r \in {[raised |-> ServiceUnavailable, store |-> Store(nodes, edges)],
               RunForward(Store(nodes, edges), callers[c].rel)} :
       RunStep(c, r,
               IF callers[c].rel.type \in DOMAIN BIDIRECTIONAL_RELATIONSHIPS
               THEN "forward" ELSE "done")

\* session.run(reverse_query, **params), then return.
Mirror(c) ==
  /\ callers[c].pc = "forward"
  /\ \E r \in {[raised |-> ServiceUnavailable, store |-> Store(nodes, edges)],
               RunReverse(Store(nodes, edges), callers[c].rel)} :
       RunStep(c, r, "done")

NextConc == \E c \in Callers : Forward(c) \/ Mirror(c)

SpecConc == InitConc /\ [][NextConc]_vars

(***************************************************************************)
(* Claims about concurrent callers and about what a call accepts.          *)
(***************************************************************************)

\* Two relationships on the same (type, from, to) with different property
\* values.
SameTripleOtherValues(R, Q) ==
  /\ R.type = Q.type
  /\ FromNode(R) = FromNode(Q)
  /\ ToNode(R) = ToNode(Q)
  /\ R.properties # Q.properties

\* C11: once two callers that ran merge_relationship concurrently on the
\* same (type, from_id, to_id) of a registered type with different property
\* values have both returned, whatever the interleaving of their store
\* writes, there is exactly one edge in each direction and the forward and
\* the mirror edge carry the same property values, those of one caller.
C11_ConcurrentLastWriterWins ==
  LET R == callers["a"].rel
      Q == callers["b"].rel
  IN  (/\ callers["a"].pc = "done" /\ callers["b"].pc = "done"
       /\ Registered(R)
       /\ SameTripleOtherValues(R, Q)) =>
        /\ EdgeCount(edges, R.type, FromNode(R), ToNode(R)) = 1
        /\ EdgeCount(edges, MirrorType(R), ToNode(R), FromNode(R)) = 1
        /\ \A e \in EdgesBetween(edges, R.type, FromNode(R), ToNode(R)) :
             /\ e.props \in {R.properties, Q.properties}
             /\ \A m \in EdgesBetween(edges, MirrorType(R), ToNode(R),
                                      FromNode(R)) : m.props = e.props

\* The entity types: the labels that have a key constraint.
EntityTypes ==
  UNION {{d.label : d \in DeclarationsOf(l)} : l \in Layers}

\* A relationship that references an unknown type.
UnknownType(R) ==
  R.from_type \notin EntityTypes \/ R.to_type \notin EntityTypes

\* C17: a relationship that references an unknown type is rejected with a
\* validation error before any store call: its caller stands at the start
\* or has raised the validation error, and the store holds no node of the
\* unknown type.
C17_RejectedBeforeAnyStoreCall ==
  \A c \in DOMAIN callers :
    UnknownType(callers[c].rel) =>
      /\ callers[c].pc \in {"start", "raised"}
      /\ callers[c].pc = "raised" => callers[c].raised = "ValidationError"
      /\ \A n \in BagToSet(nodes) : n.label \in EntityTypes

(***************************************************************************)
(* Claims about the behaviour of the merge functions.                      *)
(***************************************************************************)

\* The errors the store raises to a session.run of a merge query.
StoreErrors == {ServiceUnavailable, ClientError}

\* C21: when the mirror write of merge_relationship fails, the caller
\* receives the error of the store and the store holds what the forward
\* write of the same call left: the forward edge and the placeholder nodes
\* stay, nothing is rolled back.
C21_MirrorFailureKeepsForward ==
  (IsRel(last) /\ last.stage = "mirror") =>
    /\ last.raised \in StoreErrors
    /\ Now = RunForward(pre, last.arg).store
    /\ pre.edges \sqsubseteq edges
    /\ pre.nodes \sqsubseteq nodes

\* The mirror write of a call failed after its forward write had created
\* the edge and both endpoint nodes.
C21_Witness ==
  /\ IsRel(last) /\ last.stage = "mirror"
  /\ BagCardinality(edges) = BagCardinality(pre.edges) + 1
  /\ BagCardinality(nodes) = BagCardinality(pre.nodes) + 2

\* Two calls one after the other on the same (type, from, to).
SameTriple(R, Q) ==
  R.type = Q.type /\ FromNode(R) = FromNode(Q) /\ ToNode(R) = ToNode(Q)

\* Edge e carries the bag of R on top of the bag of the earlier upsert Q:
\* the keys R supplies with R's values, the keys R omits with Q's.
Overlaid(e, R, Q) ==
  /\ \A k \in DOMAIN R.properties :
       k \in DOMAIN e.props /\ e.props[k] = R.properties[k]
  /\ \A k \in DOMAIN Q.properties \ DOMAIN R.properties :
       k \in DOMAIN e.props /\ e.props[k] = Q.properties[k]

\* C22: after a relationship is upserted again with a bag that omits a key
\* an earlier upsert of the same (type, from_id, to_id) set, the forward
\* edge and the mirror edge still carry the earlier value of that key, and
\* the supplied keys carry the new values.
C22_OmittedKeysKept ==
  (/\ IsRel(prev) /\ IsRel(last) /\ Returned(prev) /\ Returned(last)
   /\ SameTriple(prev.arg, last.arg)
   /\ DOMAIN prev.arg.properties \ DOMAIN last.arg.properties # {}) =>
    LET R == last.arg
    IN  /\ \E e \in EdgesBetween(edges, R.type, FromNode(R), ToNode(R)) :
             Overlaid(e, R, prev.arg)
        /\ Registered(R) =>
             \E e \in EdgesBetween(edges, MirrorType(R), ToNode(R),
                                   FromNode(R)) :
               Overlaid(e, R, prev.arg)

(***************************************************************************)
(* Node upserts, relationship upserts and create_constraints calls made    *)
(* one after another on one store, in any order.                           *)
(***************************************************************************)
MixedRelationships ==
  {Relationship("COLLABORATOR", "p1", "p1", "Person", "Team", BagRead),
   Relationship("REPORTS_TO", "p1", "p2", "Person", "Person", EmptyMap),
   Relationship("REPORTS_TO", "p1", "p2", "Person", "Person", BagFromId)}

MixedLayerLists == {List(<<3>>)}

MixedRelationship ==
  /\ nops < MaxOps
  /\ \E R \in MixedRelationships :
       \E o \in merge_relationship(Store(nodes, edges), R) :
         Record("merge_relationship", R, << >>, o)

MixedPerson ==
  /\ nops < MaxOps
  /\ \E P \in Persons :
       \E o \in merge_person(Store(nodes, edges), P, NoRels) :
         Record("merge_person", P, NoRels, o)

MixedTeam ==
  /\ nops < MaxOps
  /\ \E o \in merge_team(Store(nodes, edges), Team("p1", "2023-11-10"),
                         NoRels) :
       Record("merge_team", Team("p1", "2023-11-10"), NoRels, o)

MixedConstraints ==
  /\ nops < MaxOps
  /\ \E layers \in MixedLayerLists :
       \E o \in create_constraints(schema, layers) :
         /\ schema' = o.schema
         /\ cc' = [layers |-> o.layers, issued |-> o.issued,
                   answers |-> o.answers, raised |-> o.raised,
                   called |-> TRUE,
                   again |-> /\ cc.called
                             /\ cc.layers = layers
                             /\ cc.raised = Accepted]
         /\ nops' = nops + 1
         /\ UNCHANGED <<nodes, edges, pre, last, prev, callers, batch>>

NextMixed ==
  MixedRelationship \/ MixedPerson \/ MixedTeam \/ MixedConstraints

SpecMixed == Init /\ [][NextMixed]_vars

\* The (label, id) keys of the nodes of a bag.
KeysOf(ns) == {<<n.label, n.props["id"]>> : n \in BagToSet(ns)}

\* C23: no step of a sequence of node upserts, relationship upserts and
\* create_constraints calls removes a node or an edge: every edge the store
\* held it still holds, and every (label, id) has at least as many nodes as
\* before.
C23_NothingRemoved ==
  [][/\ edges \sqsubseteq edges'
     /\ \A key \in KeysOf(nodes) :
          NodeCount(nodes', key) >= NodeCount(nodes, key)]_vars

\* A node upsert rewrote a node that existed and had edges, on a store whose
\* constraints had been declared.
C23_Witness ==
  /\ IsNodeUpsert(last) /\ Returned(last)
  /\ NodeCount(pre.nodes, KeyOf(last)) = 1
  /\ \E e \in BagToSet(edges) : e.from = KeyOf(last)
  /\ pre.nodes # nodes
  /\ cc.called

(***************************************************************************)
(* merge_pull_request calls made one after another on one store.           *)
(***************************************************************************)
Stamp == "2026-01-15T16:20:00"

PullRequest(id, state, merged_at, closed_at) ==
  [id |-> Str(id), number |-> <<"int", "42">>, title |-> Str("t"),
   description |-> Str("d"), state |-> Str(state),
   created_at |-> Str("2026-01-10T14:30:00"), updated_at |-> Str(Stamp),
   merged_at |-> merged_at, closed_at |-> closed_at,
   commits_count |-> <<"int", "5">>, additions |-> <<"int", "250">>,
   deletions |-> <<"int", "30">>, changed_files |-> <<"int", "8">>,
   comments |-> <<"int", "3">>, review_comments |-> <<"int", "12">>,
   head_branch_name |-> Str("feature/oauth"),
   base_branch_name |-> Str("main"), labels |-> <<"list", "enhancement">>,
   mergeable_state |-> Str("clean")]

\* An open, a merged, a closed pull request and one merged but not closed,
\* all of one id.
PullRequests ==
  {PullRequest("pr1", "open", Null, Null),
   PullRequest("pr1", "merged", Str(Stamp), Str(Stamp)),
   PullRequest("pr1", "closed", Null, Str(Stamp)),
   PullRequest("pr1", "merged", Str(Stamp), Null)}

CreatedBy ==
  <<Relationship("CREATED_BY", "pr1", "p1", "PullRequest", "Person",
                 EmptyMap)>>

PullRequestCalls ==
  {<<P, NoRels>> : P \in PullRequests} \cup
  {<<PullRequest("pr1", "open", Null, Null), CreatedBy>>}

MergePullRequest ==
  /\ nops < MaxOps
  /\ \E c \in PullRequestCalls :
       \E o \in merge_pull_request(Store(nodes, edges), c[1], c[2]) :
         Record("merge_pull_request", c[1], c[2], o)

NextPullRequests == MergePullRequest

SpecPullRequests == Init /\ [][NextPullRequests]_vars

\* The nullable timestamps of a pull request.
Nullable == {"merged_at", "closed_at"}

\* C24: after merge_pull_request returns, the stored PullRequest node has no
\* merged_at (closed_at) value when the entity's is None, whatever an
\* earlier upsert of the id had stored, and the timestamp of the entity's
\* value when it is not None.
C24_NullableTimestamps ==
  (last.op = "merge_pull_request" /\ Returned(last)) =>
    /\ NodesOf(nodes, <<"PullRequest", last.arg["id"]>>) # {}
    /\ \A n \in NodesOf(nodes, <<"PullRequest", last.arg["id"]>>) :
         \A k \in Nullable :
           IF last.arg[k] = Null
           THEN k \notin DOMAIN n.props
           ELSE k \in DOMAIN n.props
                /\ n.props[k] = <<"datetime", last.arg[k][2]>>

\* A pull request stored as merged and closed was upserted again as open:
\* the node has lost both timestamps.
C24_Witness ==
  /\ prev.op = "merge_pull_request" /\ Returned(prev)
  /\ last.op = "merge_pull_request" /\ Returned(last)
  /\ prev.arg["merged_at"] # Null /\ prev.arg["closed_at"] # Null
  /\ last.arg["merged_at"] = Null /\ last.arg["closed_at"] = Null
  /\ \A n \in NodesOf(pre.nodes, <<"PullRequest", last.arg["id"]>>) :
       Nullable \subseteq DOMAIN n.props
  /\ \A n \in NodesOf(nodes, <<"PullRequest", last.arg["id"]>>) :
       Nullable \cap DOMAIN n.props = {}

(***************************************************************************)
(* merge_relationship calls on one pair of persons, in both directions:    *)
(* the symmetric type both ways, REPORTS_TO p1 -> p2 and its mirror type   *)
(* MANAGES p2 -> p1 (itself a key of the registry), each built without     *)
(* properties and with two bags.                                           *)
(***************************************************************************)
PairBags == {BagRead, BagFromId}

PairRelationships ==
  {RelationshipWithoutProperties("COLLABORATOR", "p1", "p2", "Person",
                                 "Person"),
   RelationshipWithoutProperties("COLLABORATOR", "p2", "p1", "Person",
                                 "Person"),
   RelationshipWithoutProperties("REPORTS_TO", "p1", "p2", "Person",
                                 "Person"),
   RelationshipWithoutProperties("MANAGES", "p2", "p1", "Person",
                                 "Person")} \cup
  {Relationship("COLLABORATOR", "p1", "p2", "Person", "Person", b) :
     b \in PairBags} \cup
  {Relationship("COLLABORATOR", "p2", "p1", "Person", "Person", b) :
     b \in PairBags} \cup
  {Relationship("REPORTS_TO", "p1", "p2", "Person", "Person", b) :
     b \in PairBags} \cup
  {Relationship("MANAGES", "p2", "p1", "Person", "Person", b) :
     b \in PairBags}

MergePair ==
  /\ nops < MaxOps
  /\ \E R \in PairRelationships :
       \E o \in merge_relationship(Store(nodes, edges), R) :
         Record("merge_relationship", R, << >>, o)

NextPairs == MergePair

SpecPairs == Init /\ [][NextPairs]_vars

\* R was built without properties.
BuiltWithoutProperties(R) ==
  R = RelationshipWithoutProperties(R.type, R.from_id, R.to_id, R.from_type,
                                    R.to_type)

\* The store holds an edge of the type between the two nodes, either way.
EdgeEitherWay(es, type, a, b) ==
  EdgesBetween(es, type, a, b) \cup EdgesBetween(es, type, b, a) # {}

\* C25 as stated: a Relationship built without properties has an empty
\* bag, and when merge_relationship on it returns, no edge of its type
\* having existed between the endpoints, the call has created the forward
\* edge, and for a registered type there is the mirror edge, carrying no
\* properties.
C25_UnpropertiedEdge ==
  (/\ IsRel(last) /\ Returned(last) /\ BuiltWithoutProperties(last.arg)
   /\ ~EdgeEitherWay(pre.edges, last.arg.type, FromNode(last.arg),
                     ToNode(last.arg))) =>
    LET R == last.arg
    IN  /\ DOMAIN R.properties = {}
        /\ \E e \in EdgesBetween(edges, R.type, FromNode(R), ToNode(R)) :
             e.props = EmptyMap /\ Added(e) = 1
        /\ Registered(R) =>
             \E e \in EdgesBetween(edges, MirrorType(R), ToNode(R),
                                   FromNode(R)) :
               e.props = EmptyMap

\* C25 amended: the same, when in addition no edge of the mirror type
\* existed from the to node to the from node; an edge of the mirror type
\* that existed is matched and kept with the properties it has.
C25_UnpropertiedEdgeUnlessMirrorExists ==
  (/\ IsRel(last) /\ Returned(last) /\ BuiltWithoutProperties(last.arg)
   /\ ~EdgeEitherWay(pre.edges, last.arg.type, FromNode(last.arg),
                     ToNode(last.arg))) =>
    LET R == last.arg
        before == IF Registered(R)
                  THEN EdgesBetween(pre.edges, MirrorType(R), ToNode(R),
                                    FromNode(R))
                  ELSE {}
    IN  /\ DOMAIN R.properties = {}
        /\ \E e \in EdgesBetween(edges, R.type, FromNode(R), ToNode(R)) :
             e.props = EmptyMap /\ Added(e) = 1
        /\ (Registered(R) /\ before = {}) =>
             \E e \in EdgesBetween(edges, MirrorType(R), ToNode(R),
                                   FromNode(R)) :
               e.props = EmptyMap /\ Added(e) = 1
        /\ (Registered(R) /\ before # {}) =>
             EdgesBetween(edges, MirrorType(R), ToNode(R), FromNode(R))
               = before

\* REPORTS_TO p1 -> p2 built without properties was upserted on an empty
\* store: both edges are there without properties.
C25_Witness ==
  /\ IsRel(last) /\ Returned(last) /\ BuiltWithoutProperties(last.arg)
  /\ last.arg.type = "REPORTS_TO"
  /\ pre.edges = EmptyBag
  /\ BagCardinality(edges) = 2
  /\ \A e \in BagToSet(edges) : e.props = EmptyMap

(***************************************************************************)
(* Batch loaders.  The teams loop of process_repo,                         *)
(* src/modules/github/main.py:277-285, calls new_team_handler on each team *)
(* of a repository; load_relationships,                                    *)
(* src/simulation/layer7/load_to_neo4j.py:101-151, calls                   *)
(* merge_relationship on each relationship of the data file.  Each action  *)
(* is one turn of the loop.                                                *)
(***************************************************************************)
BatchLen == 2

\* Teams as the GitHub API gives them.
GithubTeams ==
  {[slug |-> s, permission |-> p] : s \in {"a", "b"}, p \in {"pull", "push"}}

\* The repository whose teams are loaded: repo_id, repo_created_at.
RepoId == "repo_r"
RepoCreatedAt == "2023-11-10"

permission_mapping(permission) ==
  IF permission \in {"push", "maintain", "admin"} THEN "WRITE" ELSE "READ"

\* new_team_handler: merge_team, then merge_relationship, inside one
\* try/except Exception that prints a warning and returns.  failed tells
\* whether the warning was printed.
new_team_handler(s, team, repo_id, repo_created_at) ==
  LET team_id == "team_github_" \o team.slug
      team_node == Team(team_id, repo_created_at)
      relationship ==
        Relationship("COLLABORATOR", team_id, repo_id, "Team", "Repository",
                     ("permission" :> Str(permission_mapping(team.permission)))
                     @@ ("granted_at" :> Str(repo_created_at)))
      all == UNION {IF o.raised # NoError
                    THEN {o}
                    ELSE merge_relationship(o.store, relationship) :
                    o \in merge_team(s, team_node, NoRels)}
  IN  {[store |-> o.store, failed |-> o.raised # NoError] : o \in all}

\* Entries of data['relationships'] of the layer 7 data file; one carries a
\* JSON null.
Layer7Relationships ==
  {Relationship("AUTHORED_BY", "c1", "p1", "Commit", "Person", EmptyMap),
   Relationship("MODIFIES", "c1", "f1", "Commit", "File",
                "additions" :> <<"int", "5">>),
   Relationship("MODIFIES", "c1", "f1", "Commit", "File",
                "additions" :> Null)}

Batch(loader, items) ==
  [loader |-> loader, items |-> items, at |-> 1, failed |-> {},
   reported |-> {}, aborted |-> FALSE]

InitLoaders ==
  /\ nodes = EmptyBag
  /\ edges = EmptyBag
  /\ pre = Store(EmptyBag, EmptyBag)
  /\ last = NoCall
  /\ prev = NoCall
  /\ nops = 0
  /\ callers = NoCallers
  /\ schema = NoSchema
  /\ cc = NoDeclarations
  /\ batch \in {Batch("github", items) :
                  items \in [1..BatchLen -> GithubTeams]} \cup
               {Batch("layer7", items) :
                  items \in [1..BatchLen -> Layer7Relationships]}

\* for team in teams: new_team_handler(session, team, repo_id, ...)
ProcessRepoTeam ==
  /\ batch.loader = "github"
  /\ ~batch.aborted
  /\ batch.at <= Len(batch.items)
  /\ \E h \in new_team_handler(Store(nodes, edges), batch.items[batch.at],
                               RepoId, RepoCreatedAt) :
       /\ nodes' = h.store.nodes
       /\ edges' = h.store.edges
       /\ batch' = [batch EXCEPT
                      !.at = @ + 1,
                      !.failed = IF h.failed THEN @ \cup {batch.at} ELSE @,
                      !.reported = IF h.failed THEN @ \cup {batch.at} ELSE @]
  /\ UNCHANGED <<pre, last, prev, nops, callers, schema, cc>>

\* for rel_data in data['relationships']: merge_relationship(session, ...)
\* with no except clause around the call or the loop: an exception leaves
\* the loop and the function.
LoadRelationship ==
  /\ batch.loader = "layer7"
  /\ ~batch.aborted
  /\ batch.at <= Len(batch.items)
  /\ \E o \in merge_relationship(Store(nodes, edges), batch.items[batch.at]) :
       /\ nodes' = o.store.nodes
       /\ edges' = o.store.edges
       /\ batch' = IF o.raised # NoError
                   THEN [batch EXCEPT !.failed = @ \cup {batch.at},
                                      !.aborted = TRUE]
                   ELSE [batch EXCEPT !.at = @ + 1]
  /\ UNCHANGED <<pre, last, prev, nops, callers, schema, cc>>

NextLoaders == ProcessRepoTeam \/ LoadRelationship

SpecLoaders == InitLoaders /\ [][NextLoaders]_vars

\* C26: when the upsert of an item of a batch fails, the loader reports
\* that item and goes on with the remaining items: every failed item is
\* reported and no failure has ended the loop.
C26_BatchContinuesPastFailures ==
  /\ batch.failed \subseteq batch.reported
  /\ ~batch.aborted

\* The teams loop of the GitHub loader does so.
TeamsLoopContinuesPastFailures ==
  batch.loader = "github" =>
    /\ batch.failed \subseteq batch.reported
    /\ ~batch.aborted

\* A team failed and the loop went on to the end of the batch.
TeamsLoopWentOn ==
  /\ batch.loader = "github"
  /\ 1 \in batch.failed
  /\ batch.at = Len(batch.items) + 1

\* A merge_relationship call adds at most one edge besides the forward
\* edge, and every edge it adds has the type of the relationship or the
\* type the registry gives for it; a type that is not registered adds at
\* most the forward edge.
OneMirrorOfRegistryType ==
  IsRel(last) =>
    LET R == last.arg
        types == {R.type} \cup
                 (IF Registered(R) THEN {MirrorType(R)} ELSE {})
    IN  /\ pre.edges \sqsubseteq edges
        /\ \A e \in AddedEdges : e.type \in types /\ Added(e) = 1
        /\ Cardinality(AddedEdges) <= (IF Registered(R) THEN 2 ELSE 1)
        /\ Cardinality({e \in AddedEdges : e.type = R.type}) <=
             (IF Registered(R) /\ MirrorType(R) = R.type THEN 2 ELSE 1)
        /\ (Registered(R) /\ MirrorType(R) # R.type) =>
             Cardinality({e \in AddedEdges : e.type = MirrorType(R)}) <= 1

\* C27: merge_relationship writes at most one mirror edge per call, typed
\* BIDIRECTIONAL_RELATIONSHIPS[type], and never mirrors the mirror: when
\* the upsert of REPORTS_TO a -> b returns there is a MANAGES edge b -> a
\* and the call has added no MANAGED_BY edge.
C27_OneMirrorNeverMirrored ==
  /\ OneMirrorOfRegistryType
  /\ (IsRel(last) /\ Returned(last) /\ last.arg.type = "REPORTS_TO") =>
       LET R == last.arg
       IN  /\ EdgesBetween(edges, "MANAGES", ToNode(R), FromNode(R)) # {}
           /\ \A e \in AddedEdges : e.type # "MANAGED_BY"

\* Without a property named from_id or to_id, C27 holds.
OneMirrorNeverMirroredElsewhere ==
  NamesEndpoint(last) \/ C27_OneMirrorNeverMirrored

\* The nodes of ns that have the id of key under another label.
OtherLabels(ns, key) ==
  {n \in BagToSet(ns) : n.props["id"] = key[2] /\ n.label # key[1]}

\* The call left the nodes that have the id of key under another label as
\* they were, and when such a node existed and no node of key did, there
\* is one node of key now.
ScopedToLabel(key) ==
  /\ \A n \in OtherLabels(pre.nodes, key) :
       CopiesIn(n, nodes) = CopiesIn(n, pre.nodes)
  /\ (OtherLabels(pre.nodes, key) # {} /\ NodeCount(pre.nodes, key) = 0) =>
       NodeCount(nodes, key) = 1

\* C28: node identity is the pair (label, id).  When a merge_relationship
\* call returns, each endpoint naming id X under label L has left every
\* node with id X under another label as it was, and where no node (L, X)
\* existed next to such a node the call has created the placeholder
\* (L, X), holding the id only; a node upsert likewise.
C28_LabelScopedIdentity ==
  /\ (IsRel(last) /\ Returned(last)) =>
       \A key \in {FromNode(last.arg), ToNode(last.arg)} :
         /\ ScopedToLabel(key)
         /\ (OtherLabels(pre.nodes, key) # {}
             /\ NodeCount(pre.nodes, key) = 0) =>
              \A n \in NodesOf(nodes, key) : n.props = ("id" :> key[2])
  /\ (IsNodeUpsert(last) /\ Returned(last)) => ScopedToLabel(KeyOf(last))

\* Without a property named from_id or to_id, C28 holds.
LabelScopedIdentityElsewhere ==
  NamesEndpoint(last) \/ C28_LabelScopedIdentity

\* Team p1 was there with its properties, and a relationship naming Person
\* p1 created the placeholder (Person, p1) next to it.
PlaceholderNextToOtherLabel ==
  /\ IsRel(last) /\ Returned(last) /\ ~NamesEndpoint(last)
  /\ last.arg.to_type = "Person"
  /\ OtherLabels(pre.nodes, FromNode(last.arg)) # {}
  /\ NodeCount(pre.nodes, FromNode(last.arg)) = 0
  /\ NodeCount(nodes, FromNode(last.arg)) = 1

\* R names the triple of Q the other way round, with the same bag.
Reversed(R, Q) ==
  /\ R.type = Q.type
  /\ R.from_type = Q.to_type /\ R.from_id = Q.to_id
  /\ R.to_type = Q.from_type /\ R.to_id = Q.from_id
  /\ R.properties = Q.properties

\* C29: for a symmetric type T and equal property bags, when the upsert of
\* (T, a -> b) has returned and the upsert of (T, b -> a) after it returns,
\* the store holds the nodes and edges it held after the first.
C29_ReversedUpsertChangesNothing ==
  (/\ IsRel(prev) /\ Returned(prev) /\ IsRel(last) /\ Returned(last)
   /\ Registered(last.arg) /\ MirrorType(last.arg) = last.arg.type
   /\ Reversed(last.arg, prev.arg)) =>
    Now = pre

\* Without a property named from_id or to_id, C29 holds.
ReversedUpsertChangesNothingElsewhere ==
  NamesEndpoint(last) \/ C29_ReversedUpsertChangesNothing

\* COLLABORATOR p1 -> p2 and then p2 -> p1 were upserted with the same
\* grant bag, and the store holds the two edges of the first call.
ReversedUpsertHappened ==
  /\ IsRel(prev) /\ Returned(prev) /\ IsRel(last) /\ Returned(last)
  /\ last.arg.type = "COLLABORATOR" /\ last.arg.properties = BagRead
  /\ Reversed(last.arg, prev.arg)
  /\ BagCardinality(edges) = 2

\* C30: merge_relationship never changes the properties of a node that is
\* there.  Whatever stage the call reached, every node the store held
\* before it is held unchanged, and a node the call added holds its id
\* only.
C30_NodePropertiesKept ==
  IsRel(last) =>
    /\ pre.nodes \sqsubseteq nodes
    /\ \A n \in BagToSet(nodes) :
         CopiesIn(n, nodes) > CopiesIn(n, pre.nodes) =>
           DOMAIN n.props = {"id"}

\* The from node was written by a node upsert with its properties, and a
\* relationship of a registered type naming it was upserted, forward and
\* mirror, adding edges.
C30_Witness ==
  /\ IsRel(last) /\ Returned(last) /\ Registered(last.arg)
  /\ AddedEdges # {}
  /\ \E n \in NodesOf(pre.nodes, FromNode(last.arg)) :
       /\ "name" \in DOMAIN n.props
       /\ n \in BagToSet(nodes)
       /\ \E e \in AddedEdges : e.from = FromNode(last.arg)

====
